---- MODULE Spec2Model ----
(***************************************************************************)
(* A model of scripts/copyright-check.py: the SPDX header resolver          *)
(* (update_or_insert_header), the per-file driver (process_file) and the    *)
(* run loop of main with its tally counters and exit status.                *)
(*                                                                          *)
(* Texts are sequences of lexemes.  A lexeme is a TLA+ string standing for  *)
(* exactly the characters it shows; a text stands for the concatenation of  *)
(* its lexemes.  Every character the patterns single out (newline, space,   *)
(* ".", "-", backslash) is a lexeme of its own, and no other lexeme begins  *)
(* or ends with white space, so that the regular expressions of the script  *)
(* match on lexeme boundaries exactly as they match on characters.          *)
(***************************************************************************)
EXTENDS Integers, Sequences, FiniteSets, TLC

(***************************************************************************)
(* Lexemes                                                                  *)
(***************************************************************************)
NL == "\n"
CR == "\r"
SP == " "
DOT == "."
DASH == "-"
BS == "\\"
TAB == "\t"

YearTokens == {"2021", "2023", "2025"}

\* \s
Space == {SP, NL, TAB, CR}

IsSpace(tok) == tok \in Space

\* what [^.\n] excludes
NotDotNl == {DOT, NL}

\* what . excludes
NotNl == {NL}

\* (Copyright|\(c\)) under re.IGNORECASE
IsCopyrightWord(tok) == tok \in {"Copyright", "COPYRIGHT", "(c)", "(C)"}

\* "Licensed under" under re.IGNORECASE (the blank after it is a lexeme)
IsLicensedUnder(tok) == tok \in {"Licensed under", "licensed under"}

\* "the" under re.IGNORECASE
IsThe(tok) == tok \in {"the", "The"}

(***************************************************************************)
(* Sequence helpers                                                         *)
(***************************************************************************)
Tail0(t, p) == SubSeq(t, p, Len(t))

Min(S) == CHOOSE x \in S : \A y \in S : x <= y

Max(S) == CHOOSE x \in S : \A y \in S : x >= y

\* the number of characters of text t
RECURSIVE Width(_)
Width(t) == IF t = <<>> THEN 0 ELSE Len(Head(t)) + Width(Tail(t))

\* index of the last lexeme of the longest run from p of lexemes other than
\* those of S (p - 1 when the run is empty)
RunUntil(t, p, S) ==
    LET stops == {i \in p..Len(t) : t[i] \in S}
    IN  IF stops = {} THEN Len(t) ELSE Min(stops) - 1

\* index of the last lexeme of the longest run from p of lexemes of S
RunOf(t, p, S) ==
    LET stops == {i \in p..Len(t) : t[i] \notin S}
    IN  IF stops = {} THEN Len(t) ELSE Min(stops) - 1

\* str.strip(): leading and trailing white space removed
RECURSIVE lstrip(_)
lstrip(t) == IF t # <<>> /\ IsSpace(Head(t)) THEN lstrip(Tail(t)) ELSE t

RECURSIVE rstrip(_)
rstrip(t) ==
    IF t # <<>> /\ IsSpace(t[Len(t)]) THEN rstrip(SubSeq(t, 1, Len(t) - 1)) ELSE t

strip(t) == rstrip(lstrip(t))

(***************************************************************************)
(* FILE_TYPE_PATTERNS, EXTENSION_MAP, LICENSE_NAME_MAP                      *)
(***************************************************************************)
\* The literal parts of a dialect's spdx_pattern and header_template:
\* open NL line1 <years> SP <owner> NL line2 <license> NL close
FILE_TYPE_PATTERNS ==
    [java |->
        [open  |-> "/*",
         line1 |-> <<SP, "*", SP, "SPDX-FileCopyrightText:", SP>>,
         line2 |-> <<SP, "*", SP, "SPDX-License-Identifier:", SP>>,
         close |-> <<SP, "*/">>],
     python |->
        [open  |-> "#",
         line1 |-> <<"#", SP, "SPDX-FileCopyrightText:", SP>>,
         line2 |-> <<"#", SP, "SPDX-License-Identifier:", SP>>,
         close |-> <<"#">>],
     xml |->
        [open  |-> "<!--",
         line1 |-> <<SP, SP, "SPDX-FileCopyrightText:", SP>>,
         line2 |-> <<SP, SP, "SPDX-License-Identifier:", SP>>,
         close |-> <<"-->">>]]

Extensions == {".java", ".py", ".xml", ".rs"}

EXTENSION_MAP ==
    [e \in {".java", ".py", ".xml"} |->
        CASE e = ".java" -> "java"
          [] e = ".py"   -> "python"
          [] e = ".xml"  -> "xml"]

get_file_type(ext) ==
    IF ext \in DOMAIN EXTENSION_MAP THEN EXTENSION_MAP[ext] ELSE "java"

LicenseKeys ==
    { <<"Apache License, Version 2", DOT, "0">>,
      <<"Apache 2", DOT, "0">>,
      <<"MIT">>,
      <<"GPL v3">>,
      <<"GPLv3">> }

LICENSE_NAME_MAP ==
    [k \in LicenseKeys |->
        CASE k = <<"Apache License, Version 2", DOT, "0">> -> <<"Apache-2", DOT, "0">>
          [] k = <<"Apache 2", DOT, "0">>                  -> <<"Apache-2", DOT, "0">>
          [] k = <<"MIT">>                                 -> <<"MIT">>
          [] k = <<"GPL v3">>                              -> <<"GPL-3", DOT, "0-only">>
          [] k = <<"GPLv3">>                               -> <<"GPL-3", DOT, "0-only">>]

normalize_license(name, fallback) ==
    IF strip(name) \in DOMAIN LICENSE_NAME_MAP
    THEN LICENSE_NAME_MAP[strip(name)]
    ELSE fallback

(***************************************************************************)
(* get_updated_years                                                        *)
(***************************************************************************)
\* str(CURRENT_YEAR)
YearStr(y) ==
    CASE y = 2021 -> "2021"
      [] y = 2023 -> "2023"
      [] y = 2025 -> "2025"

\* existing_years.split("-")[0]: the lexemes before the first "-"
start_year(existing_years) ==
    SubSeq(existing_years, 1,
           Min({i \in 1..Len(existing_years) : existing_years[i] = DASH}) - 1)

\* get_updated_years with a range returned as it is
get_updated_years_keeps_range(existing_years, year) ==
    IF \E i \in 1..Len(existing_years) : existing_years[i] = DASH
    THEN existing_years
    ELSE IF existing_years # <<YearStr(year)>>
         THEN existing_years \o <<DASH, YearStr(year)>>
         ELSE existing_years

get_updated_years(existing_years, year) ==
    IF \E i \in 1..Len(existing_years) : existing_years[i] = DASH
    THEN start_year(existing_years) \o <<DASH, YearStr(year)>>
    ELSE IF existing_years # <<YearStr(year)>>
         THEN existing_years \o <<DASH, YearStr(year)>>
         ELSE existing_years

(***************************************************************************)
(* header_template.format(years=, license=, owner=)                         *)
(***************************************************************************)
header_template(ft, years, license, owner) ==
    LET p == FILE_TYPE_PATTERNS[ft]
    IN  <<p.open, NL>> \o p.line1 \o years \o <<SP>> \o owner \o <<NL>>
        \o p.line2 \o license \o <<NL>> \o p.close

(***************************************************************************)
(* spdx_pattern.search                                                      *)
(***************************************************************************)
NoMatch == [ok |-> FALSE]

HasAt(t, i, lit) ==
    /\ i >= 1
    /\ i + Len(lit) - 1 <= Len(t)
    /\ SubSeq(t, i, i + Len(lit) - 1) = lit

\* of the attempts m[s], the one the regex engine reaches first (last) that
\* succeeded
FirstOk(m) ==
    LET S == {s \in DOMAIN m : m[s].ok}
    IN  IF S = {} THEN NoMatch ELSE m[Min(S)]

LastOk(m) ==
    LET S == {s \in DOMAIN m : m[s].ok}
    IN  IF S = {} THEN NoMatch ELSE m[Max(S)]

OrElse(r1, r2) == IF r1.ok THEN r1 ELSE r2

\* the pattern from the blank after the years (at index p) to its end:
\* " (?P<owner>.+)\n" line2 "(?P<license>.+)\n" close
SpdxRest(t, ft, s, y, p) ==
    LET pat == FILE_TYPE_PATTERNS[ft]
        oe  == RunUntil(t, p + 1, NotNl)
        l   == oe + 2 + Len(pat.line2)
        le  == RunUntil(t, l, NotNl)
    IN  IF /\ p <= Len(t) /\ t[p] = SP
           /\ oe >= p + 1
           /\ oe + 1 <= Len(t)
           /\ HasAt(t, oe + 2, pat.line2)
           /\ le >= l
           /\ le + 1 <= Len(t)
           /\ HasAt(t, le + 2, pat.close)
        THEN [ok |-> TRUE, start |-> s, end |-> le + 1 + Len(pat.close),
              years |-> SubSeq(t, y, p - 1),
              owner |-> SubSeq(t, p + 1, oe),
              license |-> SubSeq(t, l, le)]
        ELSE NoMatch

\* the pattern from the years at index y: "\d{4}(?:-\d{4})?" takes the range
\* when the rest matches after it
SpdxYears(t, ft, s, y) ==
    IF y <= Len(t) /\ t[y] \in YearTokens
    THEN OrElse(IF y + 2 <= Len(t) /\ t[y + 1] = DASH /\ t[y + 2] \in YearTokens
                THEN SpdxRest(t, ft, s, y, y + 3)
                ELSE NoMatch,
                SpdxRest(t, ft, s, y, y + 1))
    ELSE NoMatch

\* the match of spdx_pattern that starts at index s, if there is one
SpdxMatchAt(t, ft, s) ==
    IF HasAt(t, s, <<FILE_TYPE_PATTERNS[ft].open, NL>> \o FILE_TYPE_PATTERNS[ft].line1)
    THEN SpdxYears(t, ft, s, s + 2 + Len(FILE_TYPE_PATTERNS[ft].line1))
    ELSE NoMatch

spdx_search(t, ft) == FirstOk([s \in 1..Len(t) |-> SpdxMatchAt(t, ft, s)])

(***************************************************************************)
(* non_spdx_pattern.search                                                  *)
(***************************************************************************)
\* [\s\S]{0,5}?: at most this many characters between the comment opener
\* and the copyright word
SlackMax == 5

\* "(the )?(?P<license>[^.\n]+)" at index q: the optional group is taken
\* when a license still follows it
LegacyLicense(t, q) ==
    LET withThe == /\ q + 1 <= Len(t) /\ IsThe(t[q]) /\ t[q + 1] = SP
                   /\ RunUntil(t, q + 2, NotDotNl) >= q + 2
        from    == IF withThe THEN q + 2 ELSE q
        le      == RunUntil(t, from, NotDotNl)
    IN  IF le >= from THEN [ok |-> TRUE, from |-> from, end |-> le] ELSE NoMatch

\* "Licensed under (the )?(?P<license>[^.\n]+)" at index l
LegacyLicensedUnder(t, l) ==
    IF IsLicensedUnder(t[l]) /\ l + 1 <= Len(t) /\ t[l + 1] = SP
    THEN LegacyLicense(t, l + 2)
    ELSE NoMatch

LegacyGroups(t, o, oe, lic) ==
    IF lic.ok
    THEN [ok |-> TRUE, end |-> lic.end, owner |-> SubSeq(t, o, oe),
          license |-> SubSeq(t, lic.from, lic.end)]
    ELSE NoMatch

\* "[.\n].*?Licensed under (the )?(?P<license>[^.\n]+)" after the owner
\* t[o..oe]: the lazy ".*?" stays on the line and stops at the first
\* "Licensed under " that a license follows
LegacyAfterOwner(t, o, oe) ==
    IF oe >= o /\ oe + 1 <= Len(t) /\ t[oe + 1] \in {DOT, NL}
    THEN LegacyGroups(t, o, oe,
            FirstOk([l \in (oe + 2)..RunUntil(t, oe + 2, NotNl) |->
                        LegacyLicensedUnder(t, l)]))
    ELSE NoMatch

\* the pattern from the owner at index o to its end: "(?P<owner>[^.\n]+)"
\* is greedy
LegacyFromOwner(t, o) == LegacyAfterOwner(t, o, RunUntil(t, o, NotDotNl))

LegacyWithYears(s, years, r) ==
    IF r.ok
    THEN [ok |-> TRUE, start |-> s, end |-> r.end, years |-> years,
          owner |-> r.owner, license |-> r.license]
    ELSE NoMatch

\* "\s+(?P<owner>..." after the years t[y..ye]: the greedy "\s+" gives back
\* white space to the owner only as far as the rest needs it to match
LegacyAfterYears(t, s, y, ye) ==
    LegacyWithYears(s, SubSeq(t, y, ye),
        LastOk([o \in (ye + 2)..(RunOf(t, ye + 1, Space) + 1) |->
                   LegacyFromOwner(t, o)]))

\* "(?P<years>\d{4}(?:-\d{4})?)" at index y
LegacyYears(t, s, y) ==
    IF y <= Len(t) /\ t[y] \in YearTokens
    THEN LegacyAfterYears(t, s, y,
            IF y + 2 <= Len(t) /\ t[y + 1] = DASH /\ t[y + 2] \in YearTokens
            THEN y + 2 ELSE y)
    ELSE NoMatch

\* the pattern from the copyright word at index c to its end
LegacyTail(t, s, c) ==
    IF RunOf(t, c + 1, Space) >= c + 1
    THEN LegacyYears(t, s, RunOf(t, c + 1, Space) + 1)
    ELSE NoMatch

\* the copyright word at index c, within the slack after the opener at s
LegacyCopyright(t, s, c) ==
    IF IsCopyrightWord(t[c]) /\ Width(SubSeq(t, s + 1, c - 1)) <= SlackMax
    THEN LegacyTail(t, s, c)
    ELSE NoMatch

\* the match of non_spdx_pattern that starts at index s, if there is one:
\* the lazy slack takes the nearest copyright word from which the rest matches
LegacyMatchAt(t, ft, s) ==
    IF t[s] = FILE_TYPE_PATTERNS[ft].open
    THEN FirstOk([c \in (s + 1)..Len(t) |-> LegacyCopyright(t, s, c)])
    ELSE NoMatch

non_spdx_search(t, ft) == FirstOk([s \in 1..Len(t) |-> LegacyMatchAt(t, ft, s)])

(***************************************************************************)
(* pattern.sub(new_header, content, count=1)                                *)
(***************************************************************************)
\* Lexemes whose first character is neither a letter nor a digit: re keeps
\* a backslash before them as it is.
KeptAfterBackslash ==
    {NL, CR, SP, TAB, DOT, DASH, "*", "*/", "/*", "#", "<!--", "-->", "(c)", "(C)"}

\* Lexemes whose first character is a digit: a backslash before them starts
\* an octal escape or a group reference.  No text of the model puts a
\* backslash before one.
DigitInitial == YearTokens \cup {"0", "0-only"}

Escaped(n, r) ==
    CASE n = BS ->
            [error |-> r.error, text |-> <<BS>> \o r.text]
      [] n \in KeptAfterBackslash ->
            [error |-> r.error, text |-> <<BS, n>> \o r.text]
      [] n = "the" ->
            [error |-> r.error, text |-> <<TAB, "he">> \o r.text]
      [] n \notin KeptAfterBackslash \cup DigitInitial \cup {BS, "the"} ->
            [error |-> TRUE, text |-> <<>>]

Unescaped(tok, r) == [error |-> r.error, text |-> <<tok>> \o r.text]

\* The replacement string is a template: re processes its backslash
\* escapes.  "\\" is one backslash, "\t" a tab, a backslash before any other
\* ASCII letter is the error "bad escape", a trailing backslash is the
\* error "bad escape (end of pattern)".
RECURSIVE expand_template(_)
expand_template(tpl) ==
    IF tpl = <<>> THEN [error |-> FALSE, text |-> <<>>]
    ELSE IF Head(tpl) # BS THEN Unescaped(Head(tpl), expand_template(Tail(tpl)))
    ELSE IF Len(tpl) = 1 THEN [error |-> TRUE, text |-> <<>>]
    ELSE Escaped(tpl[2], expand_template(Tail0(tpl, 3)))

\* the result of pattern.sub dropped: the content is returned as it is
Spliced_nowhere(m, r, content) == [error |-> r.error, text |-> content]

Spliced(m, r, content) ==
    [error |-> r.error,
     text  |-> IF r.error THEN <<>>
               ELSE SubSeq(content, 1, m.start - 1) \o r.text
                    \o Tail0(content, m.end + 1)]

\* content with the span of match m replaced by the expanded template
sub_first(m, repl, content) == Spliced(m, expand_template(repl), content)

(***************************************************************************)
(* update_or_insert_header                                                  *)
(***************************************************************************)
\* The value returned is (text, change_type); error tells that pattern.sub
\* raised re.error instead of returning.  match_years, years, license and
\* owner are the locals of the branch taken.
Returned(r, change_type, match_years, years, license, owner) ==
    [error |-> r.error, text |-> r.text, change_type |-> change_type,
     match_years |-> match_years, years |-> years, license |-> license,
     owner |-> owner]

\* if match: ... return (pattern.sub(new_header, content, count=1), change_type)
Replaced(content, ft, m, change_type, years, license, owner) ==
    Returned(sub_first(m, header_template(ft, years, license, owner), content),
             change_type, m.years, years, license, owner)

\* new_header + "\n\n" + content
Inserted(content, ft, years, license, owner) ==
    Returned([error |-> FALSE,
              text |-> header_template(ft, years, license, owner)
                       \o <<NL, NL>> \o content],
             "header_inserted", <<>>, years, license, owner)

\* the legacy matcher tried before the canonical one
header_branches_legacy_first(content, ft, m1, m2, fallback_license, fallback_owner, year) ==
    IF m2.ok
    THEN Replaced(content, ft, m2, "non_spdx_converted",
                  get_updated_years(m2.years, year),
                  normalize_license(m2.license, fallback_license),
                  strip(m2.owner))
    ELSE IF m1.ok
    THEN Replaced(content, ft, m1, "spdx_updated",
                  get_updated_years(m1.years, year), m1.license, m1.owner)
    ELSE Inserted(content, ft, <<YearStr(year)>>, fallback_license, fallback_owner)

\* the three branches, given the results m1 and m2 of the two searches
header_branches(content, ft, m1, m2, fallback_license, fallback_owner, year) ==
    IF m1.ok
    THEN Replaced(content, ft, m1, "spdx_updated",
                  get_updated_years(m1.years, year), m1.license, m1.owner)
    ELSE IF m2.ok
    THEN Replaced(content, ft, m2, "non_spdx_converted",
                  get_updated_years(m2.years, year),
                  normalize_license(m2.license, fallback_license),
                  strip(m2.owner))
    ELSE Inserted(content, ft, <<YearStr(year)>>, fallback_license, fallback_owner)

update_or_insert_header(content, ext, fallback_license, fallback_owner, year) ==
    header_branches(content, get_file_type(ext),
                    spdx_search(content, get_file_type(ext)),
                    non_spdx_search(content, get_file_type(ext)),
                    fallback_license, fallback_owner, year)

(***************************************************************************)
(* process_file                                                             *)
(***************************************************************************)
\* open(file_path, 'r').read(): universal newlines, "\r\n" and "\r" are
\* read as "\n"
RECURSIVE read_text(_)
read_text(bytes) ==
    IF bytes = <<>> THEN <<>>
    ELSE IF Head(bytes) = CR
    THEN IF Len(bytes) >= 2 /\ bytes[2] = NL
         THEN <<NL>> \o read_text(Tail0(bytes, 3))
         ELSE <<NL>> \o read_text(Tail(bytes))
    ELSE <<Head(bytes)>> \o read_text(Tail(bytes))

\* open(file_path, 'w').write(updated): "\n" is written as os.linesep,
\* which is "\n" on POSIX
write_text(text) == text

\* the file written whenever the text differs, in preview mode too
compare_and_write_in_preview(original, r, dry) ==
    [original    |-> original,
     error       |-> r.error,
     updated     |-> r.text,
     change_type |-> r.change_type,
     match_years |-> r.match_years,
     years       |-> r.years,
     license     |-> r.license,
     write       |-> ~r.error /\ original # r.text,
     result      |-> IF r.error THEN "raised"
                     ELSE IF original # r.text THEN r.change_type
                     ELSE "unchanged"]

\* if original != updated: ... (write unless dry_run) return change_type;
\* return "unchanged"
compare_and_write(original, r, dry) ==
    [original    |-> original,
     error       |-> r.error,
     updated     |-> r.text,
     change_type |-> r.change_type,
     match_years |-> r.match_years,
     years       |-> r.years,
     license     |-> r.license,
     write       |-> ~r.error /\ original # r.text /\ ~dry,
     result      |-> IF r.error THEN "raised"
                     ELSE IF original # r.text THEN r.change_type
                     ELSE "unchanged"]

process_text(original, ext, fallback_license, fallback_owner, dry, year) ==
    compare_and_write(original,
                      update_or_insert_header(original, ext, fallback_license,
                                              fallback_owner, year),
                      dry)

\* what process_file reads, computes, decides to write and returns
process_file(bytes, ext, fallback_license, fallback_owner, dry, year) ==
    process_text(read_text(bytes), ext, fallback_license, fallback_owner, dry, year)

(***************************************************************************)
(* Inputs                                                                   *)
(***************************************************************************)
MaxFiles == 2
MaxRuns == 2

CurrentYears == {2023, 2025}

FallbackLicenses == { <<"Apache-2", DOT, "0">>, <<"ISC">> }
FallbackOwners == { <<"Lucimber UG">>, <<"Acme", BS, "Co">> }

\* how a comment line of the dialect begins
LinePrefix(ft) ==
    CASE ft = "java"   -> <<SP, "*", SP>>
      [] ft = "python" -> <<"#", SP>>
      [] ft = "xml"    -> <<SP, SP>>

\* how a legacy comment of the dialect ends
LegacyClose(ft) ==
    CASE ft = "java"   -> <<NL, SP, "*/", NL>>
      [] ft = "python" -> <<NL>>
      [] ft = "xml"    -> <<NL, "-->", NL>>

Code == <<"class X {}", NL>>

CanonicalYears ==
    { <<"2021">>, <<"2025">>, <<"2021", DASH, "2023">>, <<"2021", DASH, "2025">> }

CanonicalOwners ==
    { <<"Acme">>, <<"Acme", SP, "Co", DOT>>, <<"Acme", BS, BS, "Co">>,
      <<"Acme", BS, "Co">>, <<"Acme", BS>> }

\* files that hold a canonical header
CanonicalTexts(ft) ==
    { header_template(ft, y, <<"MIT">>, o) \o <<NL>> \o Code :
        y \in CanonicalYears, o \in CanonicalOwners }
    \cup
    { pre \o header_template(ft, y, <<"Apache-2", DOT, "0">>, <<"Acme">>) \o post :
        pre \in {<<>>, Code},
        y \in CanonicalYears,
        post \in {<<NL>> \o Code, <<CR, NL>> \o Code} }

LegacyText(ft, slack, cword, years, owner, term, the, phrase, tail) ==
    <<FILE_TYPE_PATTERNS[ft].open>> \o slack \o <<cword, SP>> \o years \o owner
    \o term \o <<"Licensed under", SP>> \o the \o phrase \o tail

Slacks(ft) ==
    { <<SP>>, <<NL>> \o LinePrefix(ft), <<NL>> \o LinePrefix(ft) \o <<SP>>,
      <<NL>> \o LinePrefix(ft) \o <<SP, SP>>, <<NL>> \o LinePrefix(ft) \o <<SP, SP, SP>> }

LegacyPhrases ==
    { <<"MIT">>, <<"GPLv3">>, <<"Apache License, Version 2", DOT, "0">>,
      <<"MIT", SP, "license">>, <<"mit">> }

LegacyOwners ==
    { <<SP, "Acme">>, <<SP, "Acme", SP, "Inc">>, <<SP, SP>>, <<SP, "Acme", BS, "Co">>,
      <<SP, "Acme", SP>> }

\* files that hold a legacy comment (or something close to one)
LegacyTexts(ft) ==
    { LegacyText(ft, <<NL>> \o LinePrefix(ft), "Copyright", <<"2021">>, <<SP, "Acme">>,
                 term, the, phrase, tail) \o Code :
        term \in {<<NL>> \o LinePrefix(ft)},
        the \in {<<>>, <<"the", SP>>},
        phrase \in LegacyPhrases,
        tail \in {LegacyClose(ft), <<DOT>> \o LegacyClose(ft), <<>>} }
    \cup
    { LegacyText(ft, <<NL>> \o LinePrefix(ft), "Copyright", y, o, term, <<"the", SP>>,
                 <<"MIT">>, LegacyClose(ft)) \o Code :
        y \in {<<"2021">>, <<"2021", DASH, "2023">>},
        o \in LegacyOwners,
        term \in {<<NL>> \o LinePrefix(ft), <<DOT, SP>>, <<DOT, NL>> \o LinePrefix(ft)} }
    \cup
    { LegacyText(ft, slack, cword, <<"2021">>, <<SP, "Acme">>, <<NL>> \o LinePrefix(ft),
                 <<>>, <<"MIT">>, LegacyClose(ft)) \o Code :
        slack \in Slacks(ft), cword \in {"Copyright", "(C)"} }
    \cup
    { LegacyText(ft, <<SP>>, "Copyright", <<"2021">>, <<SP, "Acme">>, <<DOT, SP>>,
                 <<"the", SP>>, <<>>, tail) :
        tail \in {<<NL>>, <<>>, <<DOT>>} }

\* files with several headers, and files with none
OtherTexts(ft) ==
    LET canon(y) == header_template(ft, y, <<"MIT">>, <<"Acme">>)
        legacy   == LegacyText(ft, <<SP>>, "Copyright", <<"2021">>, <<SP, "Acme">>,
                               <<NL>> \o LinePrefix(ft), <<>>, <<"MIT">>, LegacyClose(ft))
    IN  { canon(<<"2021">>) \o <<NL>> \o canon(<<"2025">>) \o <<NL>>,
          canon(<<"2025">>) \o <<NL>> \o canon(<<"2021">>) \o <<NL>>,
          canon(<<"2021">>) \o <<NL>> \o legacy,
          legacy \o canon(<<"2021">>) \o <<NL>>,
          <<>>,
          Code,
          <<"class X {}", CR, NL>>,
          \* a header without an owner
          header_template(ft, <<"2021">>, <<"MIT">>, <<>>) \o <<NL>>,
          \* a header of another dialect
          header_template(IF ft = "python" THEN "xml" ELSE "python",
                          <<"2021">>, <<"MIT">>, <<"Acme">>) \o <<NL>> \o Code }

Corpus(ext) ==
    LET ft == get_file_type(ext)
    IN  IF ext = ".rs" THEN OtherTexts(ft)
        ELSE CanonicalTexts(ft) \cup LegacyTexts(ft) \cup OtherTexts(ft)

\* the files a tree may hold: extension and bytes
Tree ==
    { <<".java", header_template("java", <<"2025">>, <<"MIT">>, <<"Acme">>)
                 \o <<NL>> \o Code>>,
      <<".java", header_template("java", <<"2021">>, <<"MIT">>, <<"Acme">>)
                 \o <<NL>> \o Code>>,
      <<".java", header_template("java", <<"2025">>, <<"MIT">>, <<"Acme", BS, "Co">>)
                 \o <<NL>> \o Code>>,
      <<".py", LegacyText("python", <<SP>>, "Copyright", <<"2021">>, <<SP, "Acme">>,
                          <<NL>> \o LinePrefix("python"), <<>>, <<"MIT">>,
                          LegacyClose("python")) \o Code>>,
      <<".py", header_template("python", <<"2025">>, <<"MIT">>, <<"Acme">>)
               \o <<NL>> \o Code>>,
      <<".xml", Code>>,
      <<".rs", Code>> }

(***************************************************************************)
(* main                                                                     *)
(***************************************************************************)
VARIABLES
    files,             \* collect_files(...): the extension of each file found
    disk,              \* the bytes of each file
    dry_run,           \* args.dry_run
    fallback_license,  \* args.fallback_license
    fallback_owner,    \* args.fallback_owner
    CURRENT_YEAR,      \* datetime.now().year, read once
    pc,                \* where main stands
    idx,               \* the position of file_path in files
    stats,             \* the outcome counters
    file_types,        \* the per-dialect counters
    result,            \* the value process_file returned
    exit_code,         \* the status the process ended with
    run,               \* how many times the script has been started
    last,              \* the latest call of process_file
    reports,           \* per run, what process_file returned for each file
    written,           \* the files opened for writing since the first start
    disk0              \* the bytes of each file before the first start

vars == <<files, disk, dry_run, fallback_license, fallback_owner, CURRENT_YEAR, pc,
          idx, stats, file_types, result, exit_code, run, last, reports, written,
          disk0>>

args == <<files, dry_run, fallback_license, fallback_owner, CURRENT_YEAR, disk0>>

Outcomes == {"spdx_updated", "non_spdx_converted", "header_inserted", "unchanged"}

stats0 == [total |-> 0, spdx_updated |-> 0, non_spdx_converted |-> 0,
           header_inserted |-> 0, unchanged |-> 0]

NoCall == [file |-> 0]

Start ==
    /\ pc = "loop"
    /\ idx = 1
    /\ stats = stats0
    /\ file_types = [ft \in {} |-> 0]
    /\ result = "none"
    /\ exit_code = -1
    /\ run = 1
    /\ last = NoCall
    /\ reports = << <<>> >>
    /\ written = {}
    /\ disk0 = disk

\* a run over a tree of up to MaxFiles files
Init ==
    /\ \E n \in 0..MaxFiles :
         \E tree \in [1..n -> Tree] :
            /\ files = [k \in 1..n |-> tree[k][1]]
            /\ disk = [k \in 1..n |-> tree[k][2]]
    /\ dry_run \in BOOLEAN
    /\ fallback_license = <<"Apache-2", DOT, "0">>
    /\ fallback_owner = <<"Lucimber UG">>
    /\ CURRENT_YEAR = 2025
    /\ Start

\* a run over a single file
InitFile ==
    /\ \E e \in Extensions :
         /\ files = <<e>>
         /\ \E c \in Corpus(e) : disk = <<c>>
    /\ dry_run \in BOOLEAN
    /\ fallback_license \in FallbackLicenses
    /\ fallback_owner \in FallbackOwners
    /\ CURRENT_YEAR \in CurrentYears
    /\ Start

\* for file_path in files: file_types[file_type] = file_types.get(file_type, 0) + 1
TrackFileType ==
    /\ pc = "loop"
    /\ idx <= Len(files)
    /\ LET ft == get_file_type(files[idx])
       IN  file_types' =
             [t \in DOMAIN file_types \cup {ft} |->
                IF t = ft
                THEN (IF ft \in DOMAIN file_types THEN file_types[ft] ELSE 0) + 1
                ELSE file_types[t]]
    /\ pc' = "process"
    /\ UNCHANGED <<args, disk, idx, stats, result, exit_code, run, last, reports,
                   written>>

Record(c) ==
    [file |-> idx, run |-> run, original |-> c.original, error |-> c.error,
     updated |-> c.updated, change_type |-> c.change_type,
     match_years |-> c.match_years, years |-> c.years, license |-> c.license,
     write |-> c.write, result |-> c.result]

\* process_file returns c.result, having written the file if c.write
Returns(c) ==
    /\ ~c.error
    /\ disk' = IF c.write THEN [disk EXCEPT ![idx] = write_text(c.updated)] ELSE disk
    /\ written' = IF c.write THEN written \cup {idx} ELSE written
    /\ result' = c.result
    /\ last' = Record(c)
    /\ reports' = [reports EXCEPT ![run] = Append(@, c.result)]
    /\ pc' = "tally"
    /\ UNCHANGED <<args, idx, stats, file_types, exit_code, run>>

\* pattern.sub raises re.error: main ends with a traceback
Raises(c) ==
    /\ c.error
    /\ last' = Record(c)
    /\ reports' = [reports EXCEPT ![run] = Append(@, c.result)]
    /\ pc' = "aborted"
    /\ exit_code' = 1
    /\ UNCHANGED <<args, disk, idx, stats, file_types, result, run, written>>

\* open(file_path, 'r'), or open(file_path, 'w') when the file is to be
\* written, raises OSError: main ends with a traceback
Fails(c) ==
    /\ \/ TRUE
       \/ c.write
    /\ reports' = [reports EXCEPT ![run] = Append(@, "io_error")]
    /\ pc' = "aborted"
    /\ exit_code' = 1
    /\ UNCHANGED <<args, disk, idx, stats, file_types, result, run, last, written>>

\* result = process_file(file_path, ...)
ProcessFile ==
    /\ pc = "process"
    /\ Returns(process_file(disk[idx], files[idx], fallback_license, fallback_owner,
                            dry_run, CURRENT_YEAR))

ProcessFileRaises ==
    /\ pc = "process"
    /\ Raises(process_file(disk[idx], files[idx], fallback_license, fallback_owner,
                           dry_run, CURRENT_YEAR))

IOFailure ==
    /\ pc = "process"
    /\ Fails(process_file(disk[idx], files[idx], fallback_license, fallback_owner,
                          dry_run, CURRENT_YEAR))

\* stats["total"] += 1 and the counter of the outcome
Tally ==
    /\ pc = "tally"
    /\ stats' = [stats EXCEPT !.total = @ + 1, ![result] = @ + 1]
    /\ idx' = idx + 1
    /\ pc' = "loop"
    /\ UNCHANGED <<args, disk, file_types, result, exit_code, run, last, reports,
                   written>>

\* exit(1) whenever files changed, in write mode too
exit_status_any_mode(st, dry) ==
    IF st.spdx_updated + st.non_spdx_converted + st.header_inserted > 0
    THEN 1
    ELSE 0

\* if args.dry_run: ... exit(1); exit(0)
exit_status(st, dry) ==
    IF dry /\ st.spdx_updated + st.non_spdx_converted + st.header_inserted > 0
    THEN 1
    ELSE 0

Finish ==
    /\ pc = "loop"
    /\ idx > Len(files)
    /\ exit_code' = exit_status(stats, dry_run)
    /\ pc' = "done"
    /\ UNCHANGED <<args, disk, idx, stats, file_types, result, run, last, reports,
                   written>>

\* the script is started again on the same tree, with the same arguments, in
\* the same year
Rerun ==
    /\ pc \in {"done", "aborted"}
    /\ run < MaxRuns
    /\ run' = run + 1
    /\ pc' = "loop"
    /\ idx' = 1
    /\ stats' = stats0
    /\ file_types' = [ft \in {} |-> 0]
    /\ result' = "none"
    /\ exit_code' = -1
    /\ reports' = Append(reports, <<>>)
    /\ UNCHANGED <<args, disk, last, written>>

Next ==
    \/ TrackFileType
    \/ ProcessFile
    \/ ProcessFileRaises
    \/ IOFailure
    \/ Tally
    \/ Finish
    \/ Rerun

Spec == Init /\ [][Next]_vars

SpecFile == InitFile /\ [][Next]_vars

(***************************************************************************)
(* Properties                                                               *)
(***************************************************************************)
Called == last.file # 0

DialectOfLast == get_file_type(files[last.file])

EndYear(years) == years[Len(years)]

\* C1: a file that holds a canonical header whose end year is the current
\* year is reported unchanged every time it is processed, and its bytes stay
\* what they were.
CanonicalAndCurrent(m) == m.ok /\ EndYear(m.years) = YearStr(CURRENT_YEAR)

C1_Idempotence ==
    \A k \in 1..Len(files) :
        CanonicalAndCurrent(spdx_search(read_text(disk0[k]), get_file_type(files[k])))
        => /\ disk[k] = disk0[k]
           /\ \A r \in 1..Len(reports) :
                k <= Len(reports[r]) => reports[r][k] \in {"unchanged", "io_error"}

\* index of the last lexeme of the comment that opens at index s
CommentEnd(t, ft, s) ==
    LET ends == CASE ft = "java"   -> {i \in s..Len(t) : t[i] = "*/"}
                  [] ft = "xml"    -> {i \in s..Len(t) : t[i] = "-->"}
                  [] ft = "python" -> {i \in s..(Len(t) - 1) :
                                          t[i + 1] = NL /\ (i + 2 > Len(t) \/ t[i + 2] # "#")}
    IN  IF ends = {} THEN Len(t) ELSE Min(ends)

WholeCommentReplaced(o, u, ft, m, h) ==
    /\ h.ok
    /\ h.start = m.start
    /\ u = SubSeq(o, 1, m.start - 1) \o SubSeq(u, h.start, h.end)
           \o Tail0(o, CommentEnd(o, ft, m.start) + 1)

\* C2: a legacy conversion replaces the whole legacy comment by one canonical
\* header: the new text is the text before the comment, the header, and the
\* text after the comment's end, with nothing of the comment left in between.
C2_LegacyReplaced ==
    (Called /\ ~last.error /\ last.change_type = "non_spdx_converted")
    => WholeCommentReplaced(last.original, last.updated, DialectOfLast,
                            non_spdx_search(last.original, DialectOfLast),
                            spdx_search(last.updated, DialectOfLast))

YearRule(y, c, out) ==
    /\ (Len(y) = 1 /\ y[1] = c) => out = y
    /\ (Len(y) = 1 /\ y[1] # c) => out = <<y[1], DASH, c>>
    /\ Len(y) = 3 => out = <<y[1], DASH, c>>

\* C3: the years of a rewritten header follow the rule: a single year equal
\* to the current year stays, any other single year Y becomes Y-C, a range
\* A-B becomes A-C.
C3_YearRule ==
    /\ (Called /\ last.change_type # "header_inserted")
       => YearRule(last.match_years, YearStr(CURRENT_YEAR), last.years)
    /\ \A a \in YearTokens, b \in YearTokens, c \in CurrentYears :
         /\ YearRule(<<a>>, YearStr(c), get_updated_years(<<a>>, c))
         /\ YearRule(<<a, DASH, b>>, YearStr(c), get_updated_years(<<a, DASH, b>>, c))

C3_Witness ==
    /\ Called
    /\ CURRENT_YEAR = 2025
    /\ last.match_years = <<"2021", DASH, "2023">>
    /\ last.years = <<"2021", DASH, "2025">>

\* the text before the match and the text after it are what they were
OnlySpanRewritten(o, u, m) ==
    /\ Len(u) >= Len(o) - m.end + m.start - 1
    /\ SubSeq(u, 1, m.start - 1) = SubSeq(o, 1, m.start - 1)
    /\ Tail0(u, Len(u) - (Len(o) - m.end) + 1) = Tail0(o, m.end + 1)

PathByPriority(c, m1, m2) ==
    /\ m1.ok => c.change_type = "spdx_updated"
    /\ (~m1.ok /\ m2.ok) => c.change_type = "non_spdx_converted"
    /\ (~m1.ok /\ ~m2.ok) => c.change_type = "header_inserted"
    /\ (m1.ok /\ ~c.error) => OnlySpanRewritten(c.original, c.updated, m1)

\* C4: the canonical matcher decides first, then the legacy matcher, and a
\* header is inserted only when neither matches; in the canonical path only
\* the span of the first canonical match is rewritten.
C4_Priority ==
    Called => PathByPriority(last, spdx_search(last.original, DialectOfLast),
                             non_spdx_search(last.original, DialectOfLast))

C4_Witness ==
    /\ Called
    /\ ~last.error
    /\ last.change_type = "spdx_updated"
    /\ last.updated # last.original
    /\ non_spdx_search(last.original, DialectOfLast).ok

C6_ExitStatus ==
    pc = "done" =>
        IF dry_run
        THEN (exit_code # 0) <=> (\E k \in 1..Len(reports[run]) :
                                     reports[run][k] # "unchanged")
        ELSE exit_code = 0

C6_Witness ==
    /\ pc = "done"
    /\ dry_run
    /\ exit_code = 1
    /\ \E k \in 1..Len(reports[run]) : reports[run][k] = "unchanged"

\* the license phrase of the legacy header: what follows
\* "Licensed under [the] " on its line
LicensePhrase(o, m) ==
    strip(SubSeq(o, m.end - Len(m.license) + 1,
                 RunUntil(o, m.end - Len(m.license) + 1, NotNl)))

MappedOrFallback(phrase, license) ==
    /\ phrase \in DOMAIN LICENSE_NAME_MAP => license = LICENSE_NAME_MAP[phrase]
    /\ license \in {LICENSE_NAME_MAP[k] : k \in DOMAIN LICENSE_NAME_MAP}
                   \cup {fallback_license}

\* C7: in a legacy conversion the header carries the identifier the table
\* maps the license phrase to when the phrase is a key of the table, and
\* otherwise the fallback identifier.
C7_LicenseNormalized ==
    (Called /\ last.change_type = "non_spdx_converted")
    => MappedOrFallback(
          LicensePhrase(last.original, non_spdx_search(last.original, DialectOfLast)),
          last.license)

RECURSIVE SumOver(_, _)
SumOver(f, S) ==
    IF S = {} THEN 0
    ELSE LET x == CHOOSE x \in S : TRUE IN f[x] + SumOver(f, S \ {x})

\* C8: at every point of a run the per-dialect counters add up to total,
\* which is the sum of the four outcome counters.
C8_TallyConsistent ==
    /\ SumOver(file_types, DOMAIN file_types) = stats.total
    /\ stats.total = stats.spdx_updated + stats.non_spdx_converted
                     + stats.header_inserted + stats.unchanged

\* C9: the resolved text equals the original only in the canonical path and
\* only when the end year of the header is the current year; a file with a
\* legacy header or with no header is never reported unchanged.
C9_UnchangedOnlyCanonical ==
    (Called /\ ~last.error) =>
        /\ last.updated = last.original
           => /\ last.change_type = "spdx_updated"
              /\ EndYear(last.match_years) = YearStr(CURRENT_YEAR)
        /\ last.change_type \in {"non_spdx_converted", "header_inserted"}
           => last.result = last.change_type
        /\ last.result = "unchanged"
           => spdx_search(last.original, DialectOfLast).ok

C9_Witness ==
    /\ Called
    /\ ~last.error
    /\ last.change_type = "non_spdx_converted"
    /\ last.result = "non_spdx_converted"
    /\ pc = "done"

\* C10: in write mode, a file that one run has processed is, in the next
\* run, matched by the canonical matcher, reported unchanged and not
\* written.
C10_Convergence ==
    (/\ Called
     /\ ~dry_run
     /\ last.run >= 2
     /\ last.file <= Len(reports[last.run - 1])
     /\ reports[last.run - 1][last.file] \in Outcomes)
    => /\ last.result = "unchanged"
       /\ last.change_type = "spdx_updated"
       /\ ~last.write

====
